---- MODULE Spec2Model ----
(***************************************************************************)
(* FreeLint: the incremental lint/diagnostics engine of the VS Code       *)
(* extension.  The Linter class (src/src/testCommands.ts, second part of  *)
(* the file) and its wiring in activate() (src/src/extension.ts).         *)
(*                                                                         *)
(* Time is counted in milliseconds and advances in steps of TickMs.       *)
(* Strings that the code takes apart or builds (rule identifiers, source  *)
(* tags) are sequences of one-character strings.                          *)
(***************************************************************************)
EXTENDS Naturals, Integers, Sequences, FiniteSets, Bags, TLC

\* ------------------------------------------------------------------ bounds
\* At most this many lintText calls are awaited at the same time.
MaxInFlight == 2
\* At most this many Linter instances are ever constructed (the first one by
\* activate(), each further one by the freelint.setReactVersion command).
MaxLinters == 2

\* ---------------------------------------------------------------- settings
\* package.json: default of freelint.debounceDelay (and of #debounceDelay).
DefaultDebounceDelay == 500
\* Granularity of the clock, in milliseconds: two ticks per default delay.
TickMs == DefaultDebounceDelay \div 2
DefaultReactVersion == "18.2.0"
DefaultPlugins == <<"react", "react-hooks", "import">>
\* package.json: default of freelint.ignorePatterns.
DefaultIgnorePatterns == <<"**/node_modules/**", "**/dist/**">>
\* The versions the freelint.setReactVersion picker offers (two of the five).
ReactVersions == {"18.2.0", "17.0.2"}

\* --------------------------------------------------------------- documents
\* A document: its file name as path segments plus extension, and the scheme
\* of its uri.
Documents ==
  [ a   |-> [segments |-> <<"w", "a">>, ext |-> ".js", scheme |-> "file"],
    b   |-> [segments |-> <<"w", "b">>, ext |-> ".tsx", scheme |-> "file"],
    md  |-> [segments |-> <<"w", "notes">>, ext |-> ".md", scheme |-> "file"],
    un  |-> [segments |-> <<"Untitled-1">>, ext |-> ".js", scheme |-> "untitled"],
    gen |-> [segments |-> <<"w", "dist", "m">>, ext |-> ".js", scheme |-> "file"],
    eo  |-> [segments |-> <<"w", "extension-output", "x">>, ext |-> ".js", scheme |-> "file"],
    out |-> [segments |-> <<"extension-output-freelint-#1-FreeLint">>, ext |-> "",
             scheme |-> "output"] ]

Docs == DOMAIN Documents

NoDoc == "none"

\* The documents that are shown in the active text editor, that change, and
\* that are saved, in the behaviours explored.
EditorDocs == {"a", "b"}
ChangeDocs == {"a", "b", "out"}
SaveDocs == {"a", "b", "out"}

\* path.extname(document.fileName)
extname(d) == Documents[d].ext

\* document.fileName.includes('extension-output')
IsOutputChannel(d) ==
  \E i \in 1..Len(Documents[d].segments) :
     Documents[d].segments[i] \in {"extension-output", "extension-output-freelint-#1-FreeLint"}

\* minimatch(document.fileName, pattern) for the patterns of the shape
\* **/<dir>/** : some directory segment of the file name is <dir>.
PatternDir(pattern) ==
  CASE pattern = "**/node_modules/**" -> "node_modules"
    [] pattern = "**/dist/**" -> "dist"
    [] OTHER -> "?"

minimatch(d, pattern) ==
  \E i \in 1..(Len(Documents[d].segments) - 1) :
     Documents[d].segments[i] = PatternDir(pattern)

validExtensions == {".js", ".jsx", ".ts", ".tsx"}

\* ------------------------------------------------------------ rule tables
no_console == <<"n","o","-","c","o","n","s","o","l","e">>
semi == <<"s","e","m","i">>
no_undef == <<"n","o","-","u","n","d","e","f">>
rules_of_hooks ==
  <<"r","e","a","c","t","-","h","o","o","k","s","/","r","u","l","e","s","-","o","f","-",
    "h","o","o","k","s">>

\* A rule of a plugin that ruleDocumentation has no base URL for.
other_plugin_rule == <<"x", "/", "y">>

\* The baseline rules of baseConfig.rules that the sample texts trigger.
BaselineRules == {no_console, semi, no_undef}

\* The category a rule belongs to ("" for a baseline rule).
CategoryOf(ruleId) == IF ruleId = rules_of_hooks THEN "react-hooks" ELSE ""

SeqToSet(s) == {s[i] : i \in 1..Len(s)}

\* The rules an ESLint instance built from enabledPlugins reports: the baseline
\* rules always, a category's rules only when enabledPlugins includes it.
ActiveRules(enabledPlugins) ==
  BaselineRules \cup
  (IF "react-hooks" \in SeqToSet(enabledPlugins) THEN {rules_of_hooks} ELSE {})

\* ------------------------------------------------------------ the analyzer
\* The text of a document, as the class of findings ESLint reports on it.
Texts == {"clean", "console", "two", "crash"}

\* The texts each document takes in the behaviours explored.
TextsOf(d) == IF d = "a" THEN Texts ELSE {"console"}

\* What ESLint reports on a text with every rule active (result.messages).
AllMessages(text) ==
  CASE text = "clean" -> <<>>
    [] text = "console" ->
         << [ruleId |-> no_console, severity |-> 1, message |-> "Unexpected console statement.",
              line |-> 2, column |-> 1, endLine |-> 2, endColumn |-> 12] >>
    [] text = "two" ->
         << [ruleId |-> no_undef, severity |-> 2, message |-> "'y' is not defined.",
              line |-> 1, column |-> 5, endLine |-> 1, endColumn |-> 6],
            [ruleId |-> rules_of_hooks, severity |-> 2, message |-> "Hook called conditionally.",
              line |-> 3, column |-> 2],
            [ruleId |-> semi, severity |-> 1, message |-> "Missing semicolon.",
              line |-> 3, column |-> 9] >>
    [] OTHER -> <<>>

\* The engine throws on this text (a rule crashes while traversing it).
Throws(text) == text = "crash"

RECURSIVE FilterMessages(_, _)
FilterMessages(msgs, rules) ==
  IF msgs = <<>> THEN <<>>
  ELSE IF ("ruleId" \in DOMAIN Head(msgs)) => (Head(msgs).ruleId \in rules)
       THEN <<Head(msgs)>> \o FilterMessages(Tail(msgs), rules)
       ELSE FilterMessages(Tail(msgs), rules)

\* this.#eslint.lintText(text, ...) on an instance built from enabledPlugins.
lintText(text, eslint) == FilterMessages(AllMessages(text), ActiveRules(eslint.plugins))

\* ---------------------------------------------------------- the normalizer
Has(m, f) == f \in DOMAIN m

\* JavaScript truthiness of an optional number field: absent and 0 are falsy.
Truthy(m, f) == Has(m, f) /\ m[f] # 0

\* new vscode.Range(startLine, startColumn, endLine, endColumn): the start is
\* the smaller of the two positions.
Before(l1, c1, l2, c2) == l1 < l2 \/ (l1 = l2 /\ c1 < c2)
Range(sl, sc, el, ec) ==
  IF Before(el, ec, sl, sc) THEN <<el, ec, sl, sc>> ELSE <<sl, sc, el, ec>>

\* The range lintDocument builds for a message that has a line.
MessageRange_zeroWidth(m) == Range(m.line - 1, m.column - 1, m.line - 1, m.column - 1)

MessageRange(m) ==
  Range(m.line - 1,
        m.column - 1,
        IF Truthy(m, "endLine") THEN m.endLine - 1 ELSE m.line - 1,
        IF Truthy(m, "endColumn") THEN m.endColumn - 1 ELSE m.column - 1)

\* message.column - 1 is NaN without a column and negative for column 0; the
\* Range constructor rejects both.
RangeThrows(m) == ~Has(m, "column") \/ m.column < 1 \/ m.line < 1

Severity_nonZero(m) == IF m.severity > 0 THEN "Error" ELSE "Warning"

Severity(m) == IF m.severity = 2 THEN "Error" ELSE "Warning"

\* `freelint(${message.ruleId})`
SourceTag_bare(ruleId) == <<"f","r","e","e","l","i","n","t"," ">> \o ruleId

SourceTag(ruleId) == <<"f","r","e","e","l","i","n","t","(">> \o ruleId \o <<")">>

\* ruleDocumentation: SPECIAL_CASE_URLS and DOCUMENTATION_BASE_URLS
NoUrl == <<>>
SpecialCaseUrl(ruleId) ==
  IF ruleId = rules_of_hooks
  THEN <<"https://github.com/facebook/react/blob/main/packages/eslint-plugin-react-hooks/README.md#rules-of-hooks">>
  ELSE NoUrl
DocumentationBaseUrl(plugin) ==
  CASE plugin = <<"e","s","l","i","n","t">> -> <<"https://eslint.org/docs/rules/">>
    [] plugin = <<"r","e","a","c","t">> ->
         <<"https://github.com/jsx-eslint/eslint-plugin-react/blob/master/docs/rules/">>
    [] plugin = <<"r","e","a","c","t","-","h","o","o","k","s">> ->
         <<"https://github.com/facebook/react/blob/main/packages/eslint-plugin-react-hooks/README.md#">>
    [] plugin = <<"i","m","p","o","r","t">> ->
         <<"https://github.com/import-js/eslint-plugin-import/blob/main/docs/rules/">>
    [] OTHER -> NoUrl

\* ruleId.split('/'): the pieces between the slashes.
RECURSIVE Split(_, _)
Split(s, cur) ==
  IF s = <<>> THEN <<cur>>
  ELSE IF Head(s) = "/" THEN <<cur>> \o Split(Tail(s), <<>>)
       ELSE Split(Tail(s), Append(cur, Head(s)))

getRuleDocumentationUrl(ruleId) ==
  IF ruleId = <<>> THEN NoUrl
  ELSE IF SpecialCaseUrl(ruleId) # NoUrl THEN SpecialCaseUrl(ruleId)
  ELSE IF "/" \in SeqToSet(ruleId)
       THEN LET parts == Split(ruleId, <<>>)
                pluginName == parts[1]
                ruleName == parts[2]
            IN IF DocumentationBaseUrl(pluginName) # NoUrl
               THEN DocumentationBaseUrl(pluginName) \o ruleName \o <<".md">>
               ELSE NoUrl
       ELSE DocumentationBaseUrl(<<"e","s","l","i","n","t">>) \o ruleId

\* The vscode.Diagnostic lintDocument builds from one message.
Diagnostic_codeAlways(m) ==
  LET base == [range |-> MessageRange(m), message |-> m.message, severity |-> Severity(m)]
      hasRule == Has(m, "ruleId") /\ m.ruleId # <<>>
  IN IF hasRule
     THEN base @@ [source |-> SourceTag(m.ruleId),
                   code |-> [value |-> m.ruleId, target |-> getRuleDocumentationUrl(m.ruleId)]]
     ELSE base

Diagnostic(m) ==
  LET base == [range |-> MessageRange(m), message |-> m.message, severity |-> Severity(m)]
      hasRule == Has(m, "ruleId") /\ m.ruleId # <<>>
      tagged == IF hasRule THEN base @@ [source |-> SourceTag(m.ruleId)] ELSE base
  IN IF hasRule /\ getRuleDocumentationUrl(m.ruleId) # NoUrl
     THEN tagged @@ [code |-> [value |-> m.ruleId,
                               target |-> getRuleDocumentationUrl(m.ruleId)]]
     ELSE tagged

\* The loop over result.messages: the diagnostics, in order, of the messages
\* that have a line.
RECURSIVE Normalize_break(_)
Normalize_break(msgs) ==
  IF msgs = <<>> \/ ~Truthy(Head(msgs), "line") THEN <<>>
  ELSE <<Diagnostic(Head(msgs))>> \o Normalize_break(Tail(msgs))

RECURSIVE Normalize(_)
Normalize(msgs) ==
  IF msgs = <<>> THEN <<>>
  ELSE IF ~Truthy(Head(msgs), "line") THEN Normalize(Tail(msgs))
       ELSE <<Diagnostic(Head(msgs))>> \o Normalize(Tail(msgs))

\* The loop throws (into the inner catch) when a Range cannot be built.
NormalizeThrows(msgs) ==
  \E i \in 1..Len(msgs) : Truthy(msgs[i], "line") /\ RangeThrows(msgs[i])

RECURSIVE CountSeverity(_, _)
CountSeverity(msgs, isError) ==
  IF msgs = <<>> THEN 0
  ELSE (IF Truthy(Head(msgs), "line") /\ ((Head(msgs).severity = 2) = isError) THEN 1 ELSE 0)
       + CountSeverity(Tail(msgs), isError)

\* JSON.stringify of a diagnostic array: each diagnostic as the tuple of its
\* serialized fields (an absent source or code is left out by JSON).
StringifyOne(diag) ==
  << <<"severity", diag.severity>>, <<"message", diag.message>>, <<"range", diag.range>> >>
  \o (IF Has(diag, "source") THEN << <<"source", diag.source>> >> ELSE <<>>)
  \o (IF Has(diag, "code") THEN << <<"code", diag.code.value, diag.code.target>> >> ELSE <<>>)

JSONstringify(diags) == [i \in 1..Len(diags) |-> StringifyOne(diags[i])]

\* ------------------------------------------------------------------- state
VARIABLES
  linters,   \* every Linter constructed so far; the last one is `linter`
  config,    \* the freelint.* settings of the workspace
  text,      \* the current text of each document
  active,    \* the document of window.activeTextEditor, or NoDoc
  inflight,  \* the bag of lintText calls that are awaited
  out,       \* what the last step did: gate taken, log lines, notifications, store writes
  burst,     \* per Linter: the run of change events its timer belongs to
  request,   \* the arguments of the call under study of the normalizer or the code action provider
  reply      \* what that call returned, or NoReply

vars == <<linters, config, text, active, inflight, out, burst, request, reply>>
\* The state of the lint engine, and the state of a call under study.
engine == <<linters, config, text, active, inflight, out, burst>>
study == <<request, reply>>

NoRequest == [kind |-> "none"]
NoReply == [kind |-> "none"]

NoTimer == [state |-> "undefined", doc |-> NoDoc, remaining |-> 0]
\* A timer handle that has fired or was cleared: still held, no longer pending.
StaleTimer == [state |-> "stale", doc |-> NoDoc, remaining |-> 0]
NoBurst == [doc |-> NoDoc, age |-> 0, delay |-> 0, starts |-> 0]
EmptyCollection == [d \in Docs |-> <<>>]
Quiet == {}

\* The index of the Linter the extension's `linter` variable refers to.
linter == Len(linters)

Pending(l) == l.debounceTimer.state = "pending"

\* A value of freelint.plugins that is not an array (settings.json holds, say,
\* a string): enabledPlugins.flatMap is then not a function.
NotAnArray == <<"not an array">>

\* Whether the try block of #initializeESLint runs to its end for the settings.
Constructs(cfg) == cfg.plugins # NotAnArray

\* #initializeESLint: the debounce delay is read, then the ESLint instance is
\* built from the settings; when that throws, #eslint keeps what it held.
initializeESLint(l, cfg) ==
  IF Constructs(cfg)
  THEN [l EXCEPT !.debounceDelay = cfg.debounceDelay,
                 !.eslint = [plugins |-> cfg.plugins, reactVersion |-> cfg.reactVersion]]
  ELSE [l EXCEPT !.debounceDelay = cfg.debounceDelay]

\* new Linter(extensionPath)
createLinter(cfg) ==
  initializeESLint(
    [enabled |-> TRUE, eslint |-> <<>>, debounceDelay |-> DefaultDebounceDelay,
     debounceTimer |-> NoTimer, diagnosticCollection |-> EmptyCollection,
     disposed |-> FALSE], cfg)

\* The gates of lintDocument, in order: why the call returns early, or "run".
Gate_noIgnore(l, d, cfg) ==
  IF ~l.enabled THEN "disabled"
  ELSE IF extname(d) \notin validExtensions THEN "extension"
  ELSE IF Documents[d].scheme # "file" THEN "scheme"
  ELSE IF IsOutputChannel(d) THEN "output"
  ELSE "run"

Gate(l, d, cfg) ==
  IF ~l.enabled THEN "disabled"
  ELSE IF extname(d) \notin validExtensions THEN "extension"
  ELSE IF Documents[d].scheme # "file" THEN "scheme"
  ELSE IF IsOutputChannel(d) THEN "output"
  ELSE IF \E i \in 1..Len(cfg.ignorePatterns) : minimatch(d, cfg.ignorePatterns[i])
       THEN "ignored"
  ELSE "run"

\* The awaited call that lintDocument(d) of Linter i makes.
Call(ls, i, d) == [linter |-> i, doc |-> d, text |-> text[d], eslint |-> ls[i].eslint]

\* lintDocument up to its await: the awaited calls after linters[i].lintDocument(d).
lintDocument(ls, i, d, fl) ==
  IF Gate(ls[i], d, config) = "run" THEN fl (+) SetToBag({Call(ls, i, d)}) ELSE fl

\* The gate lintDocument took (the ignore-pattern skip is logged at debug level).
lintDocumentFx(ls, i, d) ==
  {Gate(ls[i], d, config)} \cup (IF Gate(ls[i], d, config) = "ignored" THEN {"debug"} ELSE {})

\* #debounceLint: cancel the pending timer, start one for the document.
debounceLint(l, d) ==
  [l EXCEPT !.debounceTimer = [state |-> "pending", doc |-> d, remaining |-> l.debounceDelay]]

\* The change listener of one Linter.
onDidChangeTextDocument_always(l, d) == debounceLint(l, d)

onDidChangeTextDocument(l, d) == IF l.enabled THEN debounceLint(l, d) ELSE l

\* toggle()
toggle_keepTimer(l) ==
  IF l.enabled
  THEN [l EXCEPT !.enabled = FALSE, !.diagnosticCollection = EmptyCollection]
  ELSE [l EXCEPT !.enabled = TRUE]

\* A toggle that only ever enables.
toggle_enable(l) == [l EXCEPT !.enabled = TRUE]

toggle(l) ==
  IF l.enabled
  THEN [l EXCEPT !.enabled = FALSE,
                 !.diagnosticCollection = EmptyCollection,
                 !.debounceTimer = IF l.debounceTimer.state = "undefined"
                                   THEN NoTimer ELSE StaleTimer]
  ELSE [l EXCEPT !.enabled = TRUE]

\* The diff and publish of lintDocument, after lintText returned `messages`:
\* the Linter afterwards and what was written and logged.
publish_always(l, d, messages) ==
  LET diagnostics == Normalize(messages)
  IN [linter |-> [l EXCEPT !.diagnosticCollection[d] = diagnostics],
      fx |-> {"write"} \cup (IF Len(diagnostics) > 0 THEN {"count"} ELSE {})]

publish_append(l, d, messages) ==
  LET diagnostics == Normalize(messages)
      currentDiagnostics == l.diagnosticCollection[d]
  IN IF JSONstringify(currentDiagnostics) # JSONstringify(diagnostics)
     THEN [linter |-> [l EXCEPT !.diagnosticCollection[d] = currentDiagnostics \o diagnostics],
           fx |-> {"write"} \cup (IF Len(diagnostics) > 0 THEN {"count"} ELSE {})]
     ELSE [linter |-> l, fx |-> {"same"}]

\* A publish that patches the stored set: the new diagnostics, then the stored
\* ones that are not among them.
publish_patch(l, d, messages) ==
  LET diagnostics == Normalize(messages)
      currentDiagnostics == l.diagnosticCollection[d]
      stale == SelectSeq(currentDiagnostics,
                         LAMBDA c : \A k \in 1..Len(diagnostics) : diagnostics[k] # c)
  IN IF JSONstringify(currentDiagnostics) # JSONstringify(diagnostics)
     THEN [linter |-> [l EXCEPT !.diagnosticCollection[d] = diagnostics \o stale],
           fx |-> {"write"} \cup (IF Len(diagnostics) > 0 THEN {"count"} ELSE {})]
     ELSE [linter |-> l, fx |-> {"same"}]

publish(l, d, messages) ==
  LET diagnostics == Normalize(messages)
      currentDiagnostics == l.diagnosticCollection[d]
  IN IF JSONstringify(currentDiagnostics) # JSONstringify(diagnostics)
     THEN [linter |-> [l EXCEPT !.diagnosticCollection[d] = diagnostics],
           fx |-> {"write"} \cup (IF Len(diagnostics) > 0 THEN {"count"} ELSE {})]
     ELSE [linter |-> l, fx |-> {"same"}]

\* The inner catch of lintDocument: log the error, show it, leave the store.
lintFailed_clear(l, d) ==
  [linter |-> [l EXCEPT !.diagnosticCollection[d] = <<>>], fx |-> {"error", "notify"}]

lintFailed(l, d) == [linter |-> l, fx |-> {"error", "notify"}]

\* dispose(): the collection is disposed, which empties it, the listeners and
\* the code action provider are disposed, and the timer is cleared.
dispose_keepTimer(l) ==
  [l EXCEPT !.disposed = TRUE, !.diagnosticCollection = EmptyCollection]

dispose(l) ==
  [l EXCEPT !.disposed = TRUE,
            !.diagnosticCollection = EmptyCollection,
            !.debounceTimer = IF l.debounceTimer.state = "undefined"
                              THEN NoTimer ELSE StaleTimer]

\* ----------------------------------------------------------- burst history
\* Per Linter, the run of change events that #debounceLint was last called
\* for: the document, the time since the last event of the run, the delay the
\* timer was started with, and how many analyses of the document the timer
\* has started.  A run is forgotten one tick after its delay has passed, or
\* when the Linter is disabled.
burstOnChange(l, bu, d) ==
  IF ~l.enabled THEN bu
  ELSE [doc |-> d, age |-> 0, delay |-> l.debounceDelay, starts |-> 0]

burstOnTick(bu, dt) ==
  IF bu = NoBurst \/ bu.age >= bu.delay THEN NoBurst ELSE [bu EXCEPT !.age = bu.age + dt]

\* ----------------------------------------------------------------- actions
Init ==
  /\ config = [plugins |-> DefaultPlugins, reactVersion |-> DefaultReactVersion,
               debounceDelay |-> DefaultDebounceDelay,
               ignorePatterns |-> DefaultIgnorePatterns]
  /\ linters = <<createLinter(config)>>
  /\ text \in [Docs -> Texts]
  /\ \A d \in Docs : text[d] \in TextsOf(d)
  /\ active \in EditorDocs \cup {NoDoc}
  \* activate(): lint the active editor, then every visible editor
  /\ inflight = IF active = NoDoc THEN EmptyBag
                ELSE lintDocument(linters, 1, active, lintDocument(linters, 1, active, EmptyBag))
  /\ out = Quiet
  /\ burst = <<NoBurst>>
  /\ request = NoRequest
  /\ reply = NoReply

\* workspace.onDidChangeTextDocument: the document changed to text t; the
\* change listener of every Linter that was not disposed runs.
Change(d, t) ==
  /\ out' = Quiet
  /\ text' = [text EXCEPT ![d] = t]
  /\ UNCHANGED <<active, config, inflight>>
  /\ linters' = [i \in 1..Len(linters) |->
                   IF linters[i].disposed THEN linters[i]
                   ELSE onDidChangeTextDocument(linters[i], d)]
  /\ burst' = [i \in 1..Len(linters) |->
                 IF linters[i].disposed THEN burst[i]
                 ELSE burstOnChange(linters[i], burst[i], d)]
  /\ UNCHANGED study

\* A call of linter.lintDocument(d) from a listener or command of activate().
Trigger(d) ==
  /\ out' = lintDocumentFx(linters, linter, d)
  /\ Gate(linters[linter], d, config) = "run" => BagCardinality(inflight) < MaxInFlight
  /\ inflight' = lintDocument(linters, linter, d, inflight)

\* workspace.onDidSaveTextDocument
Save(d) ==
  /\ IF ~IsOutputChannel(d) THEN Trigger(d) ELSE out' = Quiet /\ inflight' = inflight
  /\ UNCHANGED <<active, text, config, burst, linters, request, reply>>

\* workspace.onDidOpenTextDocument
Open(d) ==
  /\ IF ~IsOutputChannel(d) THEN Trigger(d) ELSE out' = Quiet /\ inflight' = inflight
  /\ UNCHANGED <<active, text, config, burst, linters, request, reply>>

\* window.onDidChangeActiveTextEditor
ActiveChange(d) ==
  /\ d # active
  /\ active' = d
  /\ IF d # NoDoc /\ ~IsOutputChannel(d) THEN Trigger(d)
     ELSE out' = Quiet /\ inflight' = inflight
  /\ UNCHANGED <<text, config, burst, linters, request, reply>>

\* The freelint.lintFile command.
LintFile ==
  /\ IF active = NoDoc
     THEN out' = {"no-editor", "error", "notify"} /\ inflight' = inflight
     ELSE Trigger(active)
  /\ UNCHANGED <<active, text, config, burst, linters, request, reply>>

\* The freelint.toggle command: toggle(), then lint the active document when
\* the Linter is now enabled.
Toggle ==
  LET ls == [linters EXCEPT ![linter] = toggle(linters[linter])]
  IN /\ linters' = ls
     /\ IF ls[linter].enabled /\ active # NoDoc
        THEN /\ Gate(ls[linter], active, config) = "run"
                  => BagCardinality(inflight) < MaxInFlight
             /\ inflight' = lintDocument(ls, linter, active, inflight)
             /\ out' = {"toggle"} \cup lintDocumentFx(ls, linter, active)
        ELSE inflight' = inflight /\ out' = {"toggle"}
     /\ burst' = IF ls[linter].enabled THEN burst ELSE [burst EXCEPT ![linter] = NoBurst]
     /\ UNCHANGED <<config, text, active, request, reply>>

\* A timer that stays pending after its callback ran, as one started with
\* setInterval would.
TimerFire_repeat(i) ==
  LET l == linters[i]
      d == l.debounceTimer.doc
  IN /\ Pending(l) /\ l.debounceTimer.remaining = 0
     /\ Gate(l, d, config) = "run" => BagCardinality(inflight) < MaxInFlight
     /\ linters' = [linters EXCEPT ![i].debounceTimer.remaining = l.debounceDelay]
     /\ inflight' = lintDocument(linters, i, d, inflight)
     /\ out' = {"timer"} \cup lintDocumentFx(linters, i, d)
     /\ burst' = [burst EXCEPT ![i].starts =
                     IF burst[i].doc = d /\ Gate(l, d, config) = "run"
                     THEN burst[i].starts + 1 ELSE burst[i].starts]
     /\ UNCHANGED <<config, text, active, request, reply>>

\* The timer of Linter i expires: its callback calls lintDocument.
TimerFire(i) ==
  LET l == linters[i]
      d == l.debounceTimer.doc
  IN /\ Pending(l) /\ l.debounceTimer.remaining = 0
     /\ Gate(l, d, config) = "run" => BagCardinality(inflight) < MaxInFlight
     /\ linters' = [linters EXCEPT ![i].debounceTimer = StaleTimer]
     /\ inflight' = lintDocument(linters, i, d, inflight)
     /\ out' = {"timer"} \cup lintDocumentFx(linters, i, d)
     /\ burst' = [burst EXCEPT ![i].starts =
                     IF burst[i].doc = d /\ Gate(l, d, config) = "run"
                     THEN burst[i].starts + 1 ELSE burst[i].starts]
     /\ UNCHANGED <<config, text, active, request, reply>>

\* An awaited lintText call settles and lintDocument runs to its end.  The
\* collection of a disposed Linter throws when it is read, which the inner
\* catch handles like an error of the analysis.
Complete(call) ==
  LET l == linters[call.linter]
      messages == lintText(call.text, call.eslint)
      done == IF Throws(call.text) \/ NormalizeThrows(messages) \/ l.disposed
              THEN lintFailed(l, call.doc)
              ELSE publish(l, call.doc, messages)
  IN /\ out' = done.fx
     /\ inflight' = inflight (-) SetToBag({call})
     /\ linters' = [linters EXCEPT ![call.linter] = done.linter]
     /\ UNCHANGED <<active, text, config, burst, request, reply>>

\* The config listener of one Linter, for a change of plugins or reactVersion.
onDidChangeConfiguration(l, cfg) ==
  initializeESLint([l EXCEPT !.diagnosticCollection = EmptyCollection], cfg)

\* The lintDocument(activeEditor.document) calls of Linters 1..n, in order.
RECURSIVE lintActive(_, _, _)
lintActive(ls, n, fl) ==
  IF n = 0 \/ active = NoDoc THEN fl
  ELSE lintDocument(ls, n, active, lintActive(ls, n - 1, fl))

\* The freelint.setReactVersion command with version v picked: the setting is
\* updated (every config listener runs when it changed), a new Linter is
\* constructed and the active document is linted with it.
SetReactVersion(v) ==
  LET cfg == [config EXCEPT !.reactVersion = v]
      changed == v # config.reactVersion
      old == IF changed
             THEN [i \in 1..Len(linters) |-> onDidChangeConfiguration(linters[i], cfg)]
             ELSE linters
      ls == Append(old, createLinter(cfg))
      fl == lintDocument(ls, Len(ls), active,
                         IF changed THEN lintActive(ls, Len(old), inflight) ELSE inflight)
  IN /\ Len(linters) < MaxLinters
     /\ active # NoDoc
     /\ BagCardinality(fl) <= MaxInFlight
     /\ config' = cfg
     /\ linters' = ls
     /\ inflight' = fl
     /\ burst' = Append(burst, NoBurst)
     /\ out' = Quiet
     /\ UNCHANGED <<text, active, request, reply>>

\* The time to the next timer expiry, at most one tick.
Step ==
  LET due == {linters[i].debounceTimer.remaining :
                i \in {j \in 1..Len(linters) : Pending(linters[j])}}
  IN IF \E r \in due : r < TickMs THEN CHOOSE r \in due : \A q \in due : r <= q ELSE TickMs

\* Time passes; an expired timer fires before more time passes.
Tick ==
  /\ \A i \in 1..Len(linters) : Pending(linters[i]) => linters[i].debounceTimer.remaining > 0
  /\ \E i \in 1..Len(linters) : Pending(linters[i]) \/ burst[i] # NoBurst
  /\ linters' = [i \in 1..Len(linters) |->
                   IF Pending(linters[i])
                   THEN [linters[i] EXCEPT !.debounceTimer.remaining = @ - Step]
                   ELSE linters[i]]
  /\ burst' = [i \in 1..Len(linters) |-> burstOnTick(burst[i], Step)]
  /\ out' = Quiet
  /\ UNCHANGED <<config, text, active, inflight, request, reply>>

Next ==
  \/ \E d \in ChangeDocs : \E t \in TextsOf(d) : Change(d, t)
  \/ \E d \in SaveDocs : Save(d)
  \/ \E d \in Docs : Open(d)
  \/ \E d \in EditorDocs \cup {NoDoc} : ActiveChange(d)
  \/ LintFile
  \/ Toggle
  \/ \E i \in 1..Len(linters) : TimerFire(i)
  \/ \E call \in BagToSet(inflight) : Complete(call)
  \/ Tick

Spec == Init /\ [][Next]_vars

\* ------------------------------------------------- reloading the Linter
\* The behaviours in which freelint.setReactVersion replaces the Linter: one
\* document, a.js, is open and active, and is edited, opened, linted and
\* toggled while Linters are replaced.
ReloadTexts == {"clean", "console"}

InitReload == Init /\ active = "a" /\ text["a"] \in ReloadTexts

NextReload ==
  \/ \E v \in ReactVersions : SetReactVersion(v)
  \/ \E t \in ReloadTexts : Change("a", t)
  \/ Open("a")
  \/ Toggle
  \/ \E i \in 1..Len(linters) : TimerFire(i)
  \/ \E call \in BagToSet(inflight) : Complete(call)
  \/ Tick

SpecReload == InitReload /\ [][NextReload]_vars

\* ------------------------------------------------------------------ claims
Store(i) == linters[i].diagnosticCollection
Linters == 1..Len(linters)

\* The result lintDocument computes for an awaited call.
ResultOf(call) == Normalize(lintText(call.text, call.eslint))
CallThrows(call) == Throws(call.text) \/ NormalizeThrows(lintText(call.text, call.eslint))

\* Linter i has no more awaited calls after the step than before it.
NoNewCalls(i) ==
  \A c \in BagToSet(inflight') :
     c.linter = i => CopiesIn(c, inflight') <= CopiesIn(c, inflight)

\* The gates of lintDocument, as recorded in `out` by a step that called it.
GateTags == {"run", "disabled", "extension", "scheme", "output", "ignored"}

\* The steps in which the extension calls linter.lintDocument(d) at once.
ExplicitTrigger(d) ==
  \/ Open(d)
  \/ Save(d)
  \/ ActiveChange(d)
  \/ (LintFile /\ active = d)

\* The timer of Linter i is where the run of change events on a lintable
\* document requires it: not fired and due one delay after the last event
\* while that event is younger than the delay, and fired exactly once, with
\* one analysis of the document started, when the delay has passed.
RunOnTime(i) ==
  LET bu == burst[i]
      l == linters[i]
      t == l.debounceTimer
  IN (l.enabled /\ bu # NoBurst /\ Gate(l, bu.doc, config) = "run") =>
       /\ bu.age <= bu.delay
       /\ bu.age < bu.delay =>
            /\ bu.starts = 0
            /\ Pending(l) /\ t.doc = bu.doc /\ t.remaining = bu.delay - bu.age
       /\ bu.age = bu.delay =>
            \/ bu.starts = 0 /\ Pending(l) /\ t.doc = bu.doc /\ t.remaining = 0
            \/ ~Pending(l) /\ bu.starts = 1

\* While the last event of a run on a lintable document is younger than the
\* delay and the Linter stays enabled, the next step leaves the run in place.
RunKept(i) ==
  ( /\ linters[i].enabled /\ linters'[i].enabled
    /\ burst[i] # NoBurst
    /\ Gate(linters[i], burst[i].doc, config) = "run"
    /\ burst[i].age < burst[i].delay )
  => burst'[i].doc = burst[i].doc

\* C1: Debounce coalescing. For a run of change events on one lintable
\* document while enabled, each less than the delay after the previous one,
\* the timer starts exactly one analysis of that document, one delay after
\* the last event of the run and not before.
C1_DebounceCoalescing ==
  /\ [](\A i \in Linters : RunOnTime(i))
  /\ [][\A i \in Linters : RunKept(i)]_vars

\* C2: Debounce timers are per document: a change event on a document never
\* cancels or moves the pending timer of a different document.
C2_PerDocumentTimers ==
  [][\A i \in Linters : \A d \in ChangeDocs :
       ( /\ Pending(linters[i])
         /\ linters[i].debounceTimer.doc # d
         /\ \E t \in TextsOf(d) : Change(d, t) )
       => linters'[i].debounceTimer = linters[i].debounceTimer]_vars

\* C3: Disable clears state. The step in which toggle() takes the Linter from
\* enabled to disabled leaves its store empty for every document and no timer
\* pending.
C3_DisableClears ==
  [][(Toggle /\ linters[linter].enabled) =>
       /\ ~linters'[linter].enabled
       /\ \A d \in Docs : linters'[linter].diagnosticCollection[d] = <<>>
       /\ ~Pending(linters'[linter])]_vars

\* The Linter was just disabled after it had started a timer.
C3_Witness ==
  /\ out = {"toggle"}
  /\ ~linters[linter].enabled
  /\ linters[linter].debounceTimer.state = "stale"

\* C4: While a Linter is disabled, open, save, active-editor change, the
\* manual lint command and document changes leave its store and its timer as
\* they are and start no analysis with it.
C4_DisabledNoOp ==
  [][\A i \in Linters :
       ( /\ ~linters[i].enabled
         /\ \/ \E d \in Docs : ExplicitTrigger(d)
            \/ \E d \in ChangeDocs : \E t \in TextsOf(d) : Change(d, t) )
       => (linters'[i] = linters[i] /\ NoNewCalls(i))]_vars

\* lintDocument was just called on the disabled Linter and returned at its first gate.
C4_Witness == out = {"disabled"} /\ ~linters[linter].enabled

\* C5: Idempotent publish. When the analysis of a text completes while the
\* stored set of its document is already the normalized result of that text,
\* the store is not written and no result count is logged.
C5_IdempotentPublish ==
  [][\A call \in BagToSet(inflight) :
       ( /\ Complete(call)
         /\ linters[call.linter].enabled
         /\ ~CallThrows(call)
         /\ Store(call.linter)[call.doc] = ResultOf(call) )
       => (linters' = linters /\ out' = {"same"})]_vars

\* A second analysis of a.js just completed as a no-op on a non-empty stored
\* set (b.tsx has no stored set, so the completed call was one of a.js).
C5_Witness ==
  /\ out = {"same"}
  /\ linters[linter].enabled
  /\ Store(linter)["a"] # <<>>
  /\ Store(linter)["b"] = <<>>

\* C6: Publish on difference. When the computed set differs from the stored
\* set, the stored set of that document becomes the computed set and no other
\* entry changes; the result count is logged exactly when the computed set is
\* non-empty.
C6_PublishOnDifference ==
  [][\A call \in BagToSet(inflight) :
       ( /\ Complete(call)
         /\ ~CallThrows(call)
         /\ Store(call.linter)[call.doc] # ResultOf(call) )
       => /\ linters'[call.linter].diagnosticCollection =
               [Store(call.linter) EXCEPT ![call.doc] = ResultOf(call)]
          /\ "write" \in out'
          /\ ("count" \in out') <=> (ResultOf(call) # <<>>)]_vars

\* A non-empty stored set was just replaced by the empty set, without a count.
C6_Witness == out = {"write"}

\* C7: AnalysisError recovery. When the analyzer throws, every stored set is
\* what it was, the error is logged and shown, and lintDocument ends.
C7_AnalysisErrorRecovery ==
  [][\A call \in BagToSet(inflight) :
       (Complete(call) /\ CallThrows(call))
       => /\ \A i \in Linters :
               linters'[i].diagnosticCollection = linters[i].diagnosticCollection
          /\ out' = {"error", "notify"}
          /\ inflight' = inflight (-) SetToBag({call})]_vars

\* An analysis of a.js just failed and the diagnostics of a.js are still stored.
C7_Witness == out = {"error", "notify"} /\ Store(linter)["a"] # <<>>

\* The document fails the extension, scheme or ignore-pattern gate.
Unsupported(d) ==
  \/ extname(d) \notin validExtensions
  \/ Documents[d].scheme # "file"
  \/ \E i \in 1..Len(config.ignorePatterns) : minimatch(d, config.ignorePatterns[i])

\* C8: Unsupported-document skip. A lintDocument call on a document with
\* another extension, another scheme or an ignored file name starts no
\* analysis, leaves every stored set, and logs and shows no error.
C8_UnsupportedSkip ==
  [][\A d \in Docs :
       ( /\ Unsupported(d)
         /\ GateTags \cap out' # {}
         /\ \/ ExplicitTrigger(d)
            \/ \E i \in Linters : TimerFire(i) /\ linters[i].debounceTimer.doc = d )
       => /\ inflight' = inflight
          /\ \A i \in Linters :
               linters'[i].diagnosticCollection = linters[i].diagnosticCollection
          /\ out' \cap {"error", "notify"} = {}]_vars

\* lintDocument was just called on the ignored dist/m.js and skipped it.
C8_Witness == out = {"ignored", "debug"} /\ linters[linter].enabled

\* C9: Re-enable is not a global relint. The step in which toggle() takes the
\* Linter from disabled to enabled starts an analysis of the active document
\* only and leaves the set of every other document empty; in every step, the
\* set of a document stops being empty only when an analysis of that document
\* completes.
C9_ReenableNotGlobal ==
  [][/\ (Toggle /\ ~linters[linter].enabled) =>
          /\ linters'[linter].enabled
          /\ \A c \in BagToSet(inflight') :
               CopiesIn(c, inflight') > CopiesIn(c, inflight) => c.doc = active
          /\ \A d \in Docs \ {active} : linters'[linter].diagnosticCollection[d] = <<>>
     /\ \A i \in Linters : \A d \in Docs :
          (Store(i)[d] = <<>> /\ linters'[i].diagnosticCollection[d] # <<>>)
          => \E call \in BagToSet(inflight) :
                call.linter = i /\ call.doc = d /\ Complete(call)]_vars

\* C10: Explicit triggers are not debounced. While enabled, an open, save,
\* active-editor change or manual lint of a document with a valid extension
\* and the file scheme that no ignore pattern matches starts the analysis of
\* its current text in that step and leaves the timer as it is.
C10_ExplicitTriggersImmediate ==
  [][\A d \in Docs :
       ( /\ linters[linter].enabled
         /\ ~Unsupported(d)
         /\ ExplicitTrigger(d) )
       => /\ inflight' = inflight (+) SetToBag({Call(linters, linter, d)})
          /\ linters' = linters]_vars

\* ------------------------------------------------ the normalizer, alone
\* The message loop of lintDocument and the rule id extraction of
\* #provideCodeActions applied to the messages of one ESLint result.
MaxPos == 2
MaxMessages == 2

\* The severities of ESLint messages: 1 (warn) and 2 (error).
Severities == {1, 2}

\* The locations ESLint reports: a 1-based line and column, and an end that
\* is not before the start; each end field may be missing.
Absent == 0
Locations ==
  {loc \in [line : 1..MaxPos, column : 1..MaxPos,
            endLine : {Absent} \cup 1..MaxPos, endColumn : {Absent} \cup 1..MaxPos] :
     ~Before(IF loc.endLine = Absent THEN loc.line ELSE loc.endLine,
             IF loc.endColumn = Absent THEN loc.column ELSE loc.endColumn,
             loc.line, loc.column)}

\* An ESLint message: ruleId is null (here: no field) for a parser error or a
\* file-level warning; a file-level warning has no location at all.
Message(ruleId, severity) ==
  IF ruleId = <<>> THEN [severity |-> severity, message |-> "text"]
  ELSE [severity |-> severity, message |-> "text", ruleId |-> ruleId]

Located(m, loc) ==
  m @@ [line |-> loc.line, column |-> loc.column]
    @@ (IF loc.endLine = Absent THEN <<>> ELSE [endLine |-> loc.endLine])
    @@ (IF loc.endColumn = Absent THEN <<>> ELSE [endColumn |-> loc.endColumn])

Messages ==
  {Message(r, sv) : r \in {<<>>, no_console, rules_of_hooks}, sv \in Severities}
  \cup {Located(Message(no_console, 1), loc) : loc \in Locations}
  \cup {Located(Message(r, sv), [line |-> 1, column |-> 1, endLine |-> Absent, endColumn |-> Absent]) :
          r \in {<<>>, rules_of_hooks, other_plugin_rule}, sv \in Severities}

MessageSeqs == UNION {[1..n -> Messages] : n \in 0..MaxMessages}

\* The first index of ch in s at or after from, 0 when there is none.
RECURSIVE IndexOf(_, _, _)
IndexOf(s, ch, from) ==
  IF from > Len(s) THEN 0
  ELSE IF s[from] = ch THEN from ELSE IndexOf(s, ch, from + 1)

\* diagnostic.source.match(/\((.*?)\)/)?.[1]: the text between the first "("
\* and the first ")" after it; <<>> when there is no match.
ExtractRuleId(source) ==
  LET open == IndexOf(source, "(", 1)
      close == IF open = 0 THEN 0 ELSE IndexOf(source, ")", open + 1)
  IN IF close = 0 THEN <<>> ELSE SubSeq(source, open + 1, close - 1)

startsWithFreelint(source) ==
  Len(source) >= 8 /\ SubSeq(source, 1, 8) = <<"f","r","e","e","l","i","n","t">>

\* The engine is idle while a call is studied.
Idle ==
  /\ config = [plugins |-> DefaultPlugins, reactVersion |-> DefaultReactVersion,
               debounceDelay |-> DefaultDebounceDelay,
               ignorePatterns |-> DefaultIgnorePatterns]
  /\ linters = <<createLinter(config)>>
  /\ text = [d \in Docs |-> "clean"]
  /\ active = NoDoc
  /\ inflight = EmptyBag
  /\ out = Quiet
  /\ burst = <<NoBurst>>

InitNormalize ==
  /\ Idle
  /\ request \in {[kind |-> "normalize", messages |-> ms] : ms \in MessageSeqs}
  /\ reply = NoReply

\* lintDocument, lines 593-640: the diagnostics of the messages, or the
\* exception of the loop.
NormalizeMessages ==
  /\ reply = NoReply
  /\ reply' = IF NormalizeThrows(request.messages) THEN [kind |-> "thrown"]
              ELSE [kind |-> "diagnostics", diagnostics |-> Normalize(request.messages)]
  /\ UNCHANGED <<engine, request>>

\* #provideCodeActions, lines 785-792: the rule id it reads from each
\* diagnostic (<<>> for a diagnostic it skips).
ExtractRuleIds ==
  /\ reply.kind = "diagnostics"
  /\ reply' = [kind |-> "ruleIds", diagnostics |-> reply.diagnostics,
               ruleIds |-> [k \in 1..Len(reply.diagnostics) |->
                              IF Has(reply.diagnostics[k], "source")
                                 /\ startsWithFreelint(reply.diagnostics[k].source)
                              THEN ExtractRuleId(reply.diagnostics[k].source) ELSE <<>>]]
  /\ UNCHANGED <<engine, request>>

NextNormalize == NormalizeMessages \/ ExtractRuleIds

SpecNormalize == InitNormalize /\ [][NextNormalize]_vars

\* ------------------------------------------ the code action provider, alone
\* #provideCodeActions(document, range, context) for a document given as its
\* lines, the diagnostics of the context, and what the fix pass
\* (#getAutoFixResults) does on the document.
LineTexts == {<<"x">>, <<" ", " ", "x">>, <<";">>}

DocumentLines == UNION {[1..n -> LineTexts] : n \in 1..MaxPos}

\* document.getText().length: the lines and the line breaks between them.
RECURSIVE TextLength(_)
TextLength(lines) ==
  IF Len(lines) = 1 THEN Len(lines[1]) ELSE Len(Head(lines)) + 1 + TextLength(Tail(lines))

\* document.positionAt(offset), as <<line, character>>; an offset past the end
\* is the end of the document.
RECURSIVE positionFrom(_, _, _)
positionFrom(lines, offset, line) ==
  IF offset <= Len(Head(lines)) THEN <<line, offset>>
  ELSE IF Len(lines) = 1 THEN <<line, Len(Head(lines))>>
  ELSE positionFrom(Tail(lines), offset - Len(Head(lines)) - 1, line + 1)

positionAt(lines, offset) == positionFrom(lines, offset, 0)

\* lineText.match(/^\s*/)?.[0] || '': the leading whitespace of a line.
Indentation_none(lineText) == <<>>

RECURSIVE Indentation(_)
Indentation(lineText) ==
  IF lineText = <<>> \/ Head(lineText) \notin {" ", "\t"} THEN <<>>
  ELSE <<Head(lineText)>> \o Indentation(Tail(lineText))

\* The diagnostics a context can hold for a document: of this extension
\* (tagged with a rule) or of another source, starting on a line of the document.
OtherSource == <<"t", "s">>
ContextDiagnostics(lines) ==
  {[source |-> src, range |-> <<ln, 0, ln, 1>>] :
     src \in {SourceTag(no_console), SourceTag(semi), OtherSource}, ln \in 0..(Len(lines) - 1)}

\* The text the fix pass returns as output: the extra semicolons removed, or
\* a semicolon added to the first line.
RemoveSemis(lines) ==
  [k \in 1..Len(lines) |-> SelectSeq(lines[k], LAMBDA c : c # ";")]
AppendSemi(lines) == [lines EXCEPT ![1] = Append(@, ";")]

\* The messages the fix pass leaves in results[0].messages: fixes it did not
\* apply stay on their messages.
semiFix == [ruleId |-> semi, fix |-> [range |-> <<1, 1>>, text |-> <<";">>]]
semiFixEnd == [ruleId |-> semi, fix |-> [range |-> <<3, 4>>, text |-> <<";">>]]
undefFix == [ruleId |-> no_undef, fix |-> [range |-> <<0, 1>>, text |-> <<"y">>]]
consoleLeft == [ruleId |-> no_console]

\* What #getAutoFixResults does: it throws, or returns results[0] with the
\* remaining messages and, when a fix was applied, the fixed text as output.
FixPasses(lines) ==
  {[kind |-> "throws"]}
  \cup {[kind |-> "result", messages |-> ms] : ms \in {<<>>, <<consoleLeft>>}}
  \cup {[kind |-> "result", messages |-> ms, output |-> o] :
          ms \in {<<>>, <<consoleLeft>>, <<semiFix>>, <<semiFix, consoleLeft, semiFixEnd>>,
                  <<undefFix, semiFix>>},
          o \in {RemoveSemis(lines), AppendSemi(lines)} \ {lines, << <<>> >>}}
  \* a text fixed to the empty text has no message left
  \cup {[kind |-> "result", messages |-> <<>>, output |-> o] :
          o \in {RemoveSemis(lines)} \cap {<< <<>> >>}}

\* JavaScript truthiness of a text: the empty text (one empty line) is falsy.
EmptyText == << <<>> >>

Directive(indentation, words, ruleId, tail) == indentation \o words \o ruleId \o tail

\* The two disable actions of one diagnostic, or none when it is skipped.
disableActions(lines, diagnostic) ==
  IF ~Has(diagnostic, "source") \/ ~startsWithFreelint(diagnostic.source) THEN <<>>
  ELSE LET ruleId == ExtractRuleId(diagnostic.source)
           startLine == diagnostic.range[1]
       IN IF ruleId = <<>> THEN <<>>
          ELSE << [title |-> "Disable for this line", rule |-> ruleId, kind |-> "QuickFix",
                   edit |-> << [op |-> "insert", at |-> <<startLine, 0>>,
                                text |-> Directive(Indentation(lines[startLine + 1]),
                                                   <<"// eslint-disable-next-line ">>,
                                                   ruleId, <<"\n">>)] >>],
                  [title |-> "Disable for entire file", rule |-> ruleId, kind |-> "QuickFix",
                   edit |-> << [op |-> "insert", at |-> <<0, 0>>,
                                text |-> Directive(<<>>, <<"/* eslint-disable ">>,
                                                   ruleId, <<" */\n">>)] >>] >>

\* document.lineAt throws for a line that is not in the document.
lineAtThrows(lines, diagnostic) ==
  /\ Has(diagnostic, "source") /\ startsWithFreelint(diagnostic.source)
  /\ ExtractRuleId(diagnostic.source) # <<>>
  /\ diagnostic.range[1] >= Len(lines)

RECURSIVE allDisableActions(_, _)
allDisableActions(lines, diagnostics) ==
  IF diagnostics = <<>> THEN <<>>
  ELSE disableActions(lines, Head(diagnostics)) \o allDisableActions(lines, Tail(diagnostics))

\* The fixes of the messages of one rule, as replace edits.
ruleFixes_all(lines, messages, ruleId) ==
  LET fixes == SelectSeq(messages, LAMBDA msg : Has(msg, "fix"))
  IN [k \in 1..Len(fixes) |->
        [op |-> "replace",
         range |-> positionAt(lines, fixes[k].fix.range[1]) \o positionAt(lines, fixes[k].fix.range[2]),
         text |-> fixes[k].fix.text]]

ruleFixes(lines, messages, ruleId) ==
  LET fixes == SelectSeq(messages, LAMBDA msg : msg.ruleId = ruleId /\ Has(msg, "fix"))
  IN [k \in 1..Len(fixes) |->
        [op |-> "replace",
         range |-> positionAt(lines, fixes[k].fix.range[1]) \o positionAt(lines, fixes[k].fix.range[2]),
         text |-> fixes[k].fix.text]]

\* The per-rule fix action of one diagnostic, or none.
fixActionOf(lines, messages, diagnostic) ==
  IF ~Has(diagnostic, "source") \/ ~startsWithFreelint(diagnostic.source) THEN <<>>
  ELSE LET ruleId == ExtractRuleId(diagnostic.source)
       IN IF ruleId = <<>> \/ ruleFixes(lines, messages, ruleId) = <<>> THEN <<>>
          ELSE << [title |-> "Fix issue", rule |-> ruleId, kind |-> "QuickFix",
                   edit |-> ruleFixes(lines, messages, ruleId),
                   diagnostics |-> <<diagnostic>>] >>

RECURSIVE fixActions(_, _, _)
fixActions(lines, messages, diagnostics) ==
  IF diagnostics = <<>> THEN <<>>
  ELSE fixActionOf(lines, messages, Head(diagnostics))
       \o fixActions(lines, messages, Tail(diagnostics))

\* The try block of #provideCodeActions: the fix-all action and the per-rule
\* fix actions.
autoFixActions(lines, diagnostics, fixPass) ==
  IF Len(diagnostics) = 0 \/ fixPass.kind = "throws" THEN <<>>
  ELSE IF Has(fixPass, "output") /\ fixPass.output # EmptyText /\ fixPass.output # lines
  THEN << [title |-> "Fix all auto-fixable problems", kind |-> "SourceFixAll",
           edit |-> << [op |-> "replace",
                        range |-> positionAt(lines, 0) \o positionAt(lines, TextLength(lines)),
                        text |-> fixPass.output] >>] >>
       \o fixActions(lines, fixPass.messages, diagnostics)
  ELSE <<>>

provideCodeActions_propagate(lines, diagnostics, fixPass) ==
  IF (\E k \in 1..Len(diagnostics) : lineAtThrows(lines, diagnostics[k]))
     \/ (Len(diagnostics) > 0 /\ fixPass.kind = "throws")
  THEN [kind |-> "rejected"]
  ELSE [kind |-> "actions",
        actions |-> allDisableActions(lines, diagnostics)
                    \o autoFixActions(lines, diagnostics, fixPass),
        logged |-> FALSE]

provideCodeActions(lines, diagnostics, fixPass) ==
  IF \E k \in 1..Len(diagnostics) : lineAtThrows(lines, diagnostics[k])
  THEN [kind |-> "rejected"]
  ELSE [kind |-> "actions",
        actions |-> allDisableActions(lines, diagnostics)
                    \o autoFixActions(lines, diagnostics, fixPass),
        logged |-> Len(diagnostics) > 0 /\ fixPass.kind = "throws"]

InitQuickFix ==
  /\ Idle
  /\ request \in UNION {
         {[kind |-> "codeActions", lines |-> ls, diagnostics |-> ds, fixPass |-> fp] :
            ds \in UNION {[1..n -> ContextDiagnostics(ls)] : n \in 0..MaxMessages},
            fp \in FixPasses(ls)} : ls \in DocumentLines}
  /\ reply = NoReply

ProvideCodeActions ==
  /\ reply = NoReply
  /\ reply' = provideCodeActions(request.lines, request.diagnostics, request.fixPass)
  /\ UNCHANGED <<engine, request>>

NextQuickFix == ProvideCodeActions

SpecQuickFix == InitQuickFix /\ [][NextQuickFix]_vars

\* The rules of the tagged diagnostics of a context, and their tags written out.
TaggedRules == {no_console, semi}
Tag(r) == <<"f","r","e","e","l","i","n","t","(">> \o r \o <<")">>
IsTagged(diagnostic) == \E r \in TaggedRules : diagnostic.source = Tag(r)
RuleOf(diagnostic) == CHOOSE r \in TaggedRules : diagnostic.source = Tag(r)
Tagged == SelectSeq(request.diagnostics, IsTagged)
Answered == reply.kind = "actions"
ActionsTitled(title) == {k \in 1..Len(reply.actions) : reply.actions[k].title = title}

\* The length of the longest prefix of a line that is white space.
LeadingWhitespace(lineText) ==
  CHOOSE n \in 0..Len(lineText) :
    /\ \A j \in 1..n : lineText[j] \in {" ", "\t"}
    /\ n = Len(lineText) \/ lineText[n + 1] \notin {" ", "\t"}

\* The fix pass returned an output that differs from the text of the document.
OutputDiffers ==
  /\ request.fixPass.kind = "result"
  /\ Has(request.fixPass, "output")
  /\ request.fixPass.output # request.lines

\* The messages of the request that have a start line, in order.
HasLine(m) == Has(m, "line")
Kept == SelectSeq(request.messages, HasLine)
Normalized == reply.kind \in {"diagnostics", "ruleIds"}

\* C11: At every instant at most one debounce timer is pending per document
\* in the whole extension, whatever change, toggle and set-React-version
\* events have occurred.
C11_OneTimerPerDocument ==
  \A d \in Docs :
    Cardinality({i \in Linters : Pending(linters[i]) /\ linters[i].debounceTimer.doc = d}) <= 1

\* C12: At every instant at most one Linter of the extension holds a
\* displayed (non-empty) diagnostic set for a document: a replaced Linter
\* leaves no second set for the same document.
C12_OneSetPerDocument ==
  \A d \in Docs : Cardinality({i \in Linters : Store(i)[d] # <<>>}) <= 1

\* C13: Range conversion. The diagnostic of a finding with start line L and
\* column C has the 0-based range from (L-1, C-1) to (endLine-1, endColumn-1),
\* where a missing endLine counts as L and a missing endColumn as C.
C13_RangeConversion ==
  Normalized =>
    \A k \in 1..Len(Kept) :
      LET m == Kept[k]
      IN /\ k <= Len(reply.diagnostics)
         /\ reply.diagnostics[k].range =
              << m.line - 1, m.column - 1,
                 (IF Has(m, "endLine") THEN m.endLine ELSE m.line) - 1,
                 (IF Has(m, "endColumn") THEN m.endColumn ELSE m.column) - 1 >>

\* Normalized: a finding with both end fields ending after its start, and a
\* finding with no end field.
C13_Witness ==
  /\ Normalized
  /\ \E k \in 1..Len(Kept) :
       /\ Has(Kept[k], "endLine") /\ Has(Kept[k], "endColumn")
       /\ Kept[k].endLine > Kept[k].line
  /\ \E k \in 1..Len(Kept) : ~Has(Kept[k], "endLine") /\ ~Has(Kept[k], "endColumn")

\* C14: Severity collapse. The diagnostic of a finding of severity 2 has
\* severity Error, that of a finding of any other severity has Warning.
C14_SeverityCollapse ==
  Normalized =>
    \A k \in 1..Len(Kept) :
      /\ k <= Len(reply.diagnostics)
      /\ Kept[k].severity = 2 => reply.diagnostics[k].severity = "Error"
      /\ Kept[k].severity # 2 => reply.diagnostics[k].severity = "Warning"

\* Normalized: a finding of severity 1 and a finding of severity 2.
C14_Witness ==
  /\ Normalized
  /\ {Kept[k].severity : k \in 1..Len(Kept)} = {1, 2}

\* C15: Findings without a line are dropped and all others kept: the loop
\* never fails on a finding without a line, and the diagnostics are, in
\* order, those of the findings that have a line.
C15_LinelessDropped ==
  /\ (reply.kind = "thrown") => (\A k \in 1..Len(request.messages) : HasLine(request.messages[k]))
  /\ Normalized =>
       /\ Len(reply.diagnostics) = Len(Kept)
       /\ \A k \in 1..Len(Kept) :
            LET dg == reply.diagnostics[k]
                m == Kept[k]
            IN /\ dg.message = m.message
               /\ dg.range[1] = m.line - 1 /\ dg.range[2] = m.column - 1
               /\ dg.severity = (IF m.severity = 2 THEN "Error" ELSE "Warning")
               /\ Has(dg, "source") <=> Has(m, "ruleId")

\* Normalized: a finding without a line followed by a finding with one.
C15_Witness ==
  /\ Normalized
  /\ Len(request.messages) = 2
  /\ ~HasLine(request.messages[1]) /\ HasLine(request.messages[2])
  /\ Len(reply.diagnostics) = 1

\* C29: a diagnostic has a code exactly when its finding has a rule id that
\* getRuleDocumentationUrl returns a URL for; the value of the code is then
\* the rule id and its target the URL.  A finding whose rule id has no URL
\* still gets its diagnostic, with the source tag and without a code, and
\* the pass does not throw.
C29_DocumentationReference ==
  /\ request.kind = "normalize" /\ reply # NoReply => reply.kind # "thrown"
  /\ Normalized =>
       /\ Len(reply.diagnostics) = Len(Kept)
       /\ \A k \in 1..Len(Kept) :
            LET url == IF Has(Kept[k], "ruleId")
                       THEN getRuleDocumentationUrl(Kept[k].ruleId) ELSE NoUrl
            IN IF url # NoUrl
               THEN /\ Has(reply.diagnostics[k], "code")
                    /\ reply.diagnostics[k].code = [value |-> Kept[k].ruleId, target |-> url]
               ELSE /\ ~Has(reply.diagnostics[k], "code")
                    /\ Has(Kept[k], "ruleId") =>
                          /\ Has(reply.diagnostics[k], "source")
                          /\ reply.diagnostics[k].source = SourceTag(Kept[k].ruleId)

\* A finding of a rule without a documentation URL and a finding of a rule
\* with one were normalized together.
C29_Witness ==
  /\ reply.kind = "diagnostics"
  /\ Len(Kept) = 2
  /\ Has(Kept[1], "ruleId") /\ Has(Kept[2], "ruleId")
  /\ Kept[1].ruleId = other_plugin_rule /\ ~Has(reply.diagnostics[1], "code")
  /\ Kept[2].ruleId = no_console /\ Has(reply.diagnostics[2], "code")

\* C16: Source tag round trip. The diagnostic of a finding with rule id r has
\* the source tag freelint(r), that of a finding without a rule id has no
\* source tag, and the rule id #provideCodeActions reads from the tag is r.
C16_SourceTagRoundTrip ==
  /\ Normalized =>
       \A k \in 1..Len(Kept) :
         /\ k <= Len(reply.diagnostics)
         /\ IF Has(Kept[k], "ruleId")
            THEN /\ Has(reply.diagnostics[k], "source")
                 /\ reply.diagnostics[k].source =
                      <<"f","r","e","e","l","i","n","t","(">> \o Kept[k].ruleId \o <<")">>
            ELSE ~Has(reply.diagnostics[k], "source")
  /\ reply.kind = "ruleIds" =>
       \A k \in 1..Len(Kept) :
         Has(Kept[k], "ruleId") => reply.ruleIds[k] = Kept[k].ruleId

\* Rule ids were read back from the tags of a finding with the rule id
\* react-hooks/rules-of-hooks and a finding without a rule id.
C16_Witness ==
  /\ reply.kind = "ruleIds"
  /\ \E k \in 1..Len(Kept) : Has(Kept[k], "ruleId") /\ reply.ruleIds[k] = rules_of_hooks
  /\ \E k \in 1..Len(Kept) : ~Has(Kept[k], "ruleId")

\* C17: Suppression action availability. Whatever the fix pass does (throws,
\* changes nothing, returns a fixed text), the request returns, for every
\* tagged diagnostic of the context, exactly one line-disable and one
\* file-disable action of its rule; a throwing fix pass does not fail it.
C17_SuppressionAlwaysOffered ==
  reply # NoReply =>
    /\ Answered
    /\ \A r \in TaggedRules :
         LET n == Cardinality({k \in 1..Len(Tagged) : RuleOf(Tagged[k]) = r})
         IN /\ Cardinality({k \in ActionsTitled("Disable for this line") :
                              reply.actions[k].rule = r}) = n
            /\ Cardinality({k \in ActionsTitled("Disable for entire file") :
                              reply.actions[k].rule = r}) = n
    /\ \A k \in ActionsTitled("Disable for this line") \cup ActionsTitled("Disable for entire file") :
         reply.actions[k].rule \in {RuleOf(Tagged[j]) : j \in 1..Len(Tagged)}

\* The fix pass threw and the two disable actions of a tagged diagnostic
\* were returned.
C17_Witness ==
  /\ Answered
  /\ request.fixPass.kind = "throws"
  /\ Len(Tagged) = 1
  /\ Len(reply.actions) = 2

\* C18: Suppression edit placement. The line-disable action of a diagnostic
\* is one insertion at column 0 of its start line of the directive prefixed
\* with the leading white space of that line; the file-disable action is one
\* insertion at (0,0); neither removes or replaces text.
C18_SuppressionPlacement ==
  Answered =>
    \A j \in 1..Len(Tagged) :
      LET ln == Tagged[j].range[1]
          lineText == request.lines[ln + 1]
          r == RuleOf(Tagged[j])
      IN /\ 2 * j <= Len(reply.actions)
         /\ reply.actions[2 * j - 1].edit =
              << [op |-> "insert", at |-> <<ln, 0>>,
                  text |-> SubSeq(lineText, 1, LeadingWhitespace(lineText))
                           \o <<"// eslint-disable-next-line ">> \o r \o <<"\n">>] >>
         /\ reply.actions[2 * j].edit =
              << [op |-> "insert", at |-> <<0, 0>>,
                  text |-> <<"/* eslint-disable ">> \o r \o <<" */\n">>] >>

\* Disable actions were returned for a diagnostic on an indented second line.
C18_Witness ==
  /\ Answered
  /\ \E j \in 1..Len(Tagged) :
       /\ Tagged[j].range[1] = 1
       /\ LeadingWhitespace(request.lines[2]) = 2

\* C19: Fix-all action. When the output of the fix pass differs from the text
\* of the document, exactly one fix-all action is returned and it replaces
\* the whole document with that output; when it does not differ, none is.
C19_FixAll ==
  Answered =>
    IF OutputDiffers
    THEN /\ Cardinality(ActionsTitled("Fix all auto-fixable problems")) = 1
         /\ \A k \in ActionsTitled("Fix all auto-fixable problems") :
              reply.actions[k].edit =
                << [op |-> "replace",
                    range |-> <<0, 0, Len(request.lines) - 1,
                                Len(request.lines[Len(request.lines)])>>,
                    text |-> request.fixPass.output] >>
    ELSE ActionsTitled("Fix all auto-fixable problems") = {}

MaxPlugins == 2

\* The names a user writes in freelint.plugins: the three the extension
\* knows, and one it has no entry for.
PluginNames == {"react", "react-hooks", "import", "vue"}

pluginExtendMap ==
  [react |-> "plugin:react/recommended",
   react_hooks |-> "plugin:react-hooks/recommended",
   import |-> "plugin:import/recommended"]

\* pluginExtendMap[plugin], "" when the map has no such key.
ExtendOf(plugin) ==
  CASE plugin = "react" -> pluginExtendMap.react
    [] plugin = "react-hooks" -> pluginExtendMap.react_hooks
    [] plugin = "import" -> pluginExtendMap.import
    [] OTHER -> ""

\* enabledPlugins.flatMap(plugin => pluginExtendMap[plugin] ? [pluginExtendMap[plugin]] : [])
RECURSIVE flatMapExtends(_)
flatMapExtends(enabledPlugins) ==
  IF enabledPlugins = <<>> THEN <<>>
  ELSE (IF ExtendOf(Head(enabledPlugins)) # "" THEN <<ExtendOf(Head(enabledPlugins))>> ELSE <<>>)
       \o flatMapExtends(Tail(enabledPlugins))

includes(enabledPlugins, plugin) == plugin \in SeqToSet(enabledPlugins)

\* The rule entries of baseConfig.rules, as sets of <<rule, level>>.
baselineRuleEntries ==
  {<<"no-console", "warn">>, <<"no-unused-vars", "warn">>, <<"no-redeclare", "error">>,
   <<"no-var", "warn">>, <<"no-unreachable", "error">>, <<"no-extra-semi", "warn">>,
   <<"quotes", "warn">>, <<"eqeqeq", "warn">>, <<"semi", "warn">>, <<"no-undef", "error">>}

categoryRuleEntries(plugin) ==
  CASE plugin = "react" ->
         {<<"react/react-in-jsx-scope", "off">>, <<"react/jsx-pascal-case", "error">>}
    [] plugin = "react-hooks" ->
         {<<"react-hooks/rules-of-hooks", "error">>, <<"react-hooks/exhaustive-deps", "warn">>}
    [] plugin = "import" ->
         {<<"import/no-unresolved", "error">>, <<"import/named", "error">>,
          <<"import/default", "error">>, <<"import/namespace", "error">>,
          <<"import/no-absolute-path", "error">>}
    [] OTHER -> {}

\* ...(enabledPlugins.includes(plugin) ? { the rules of plugin } : {})
spreadRules_always(enabledPlugins, plugin) == categoryRuleEntries(plugin)

spreadRules(enabledPlugins, plugin) ==
  IF includes(enabledPlugins, plugin) THEN categoryRuleEntries(plugin) ELSE {}

\* The baseConfig of #initializeESLint.
baseConfig(enabledPlugins, reactVersion) ==
  [plugins |-> enabledPlugins,
   extends |-> <<"eslint:recommended">> \o flatMapExtends(enabledPlugins),
   rules |-> baselineRuleEntries \cup spreadRules(enabledPlugins, "react")
               \cup spreadRules(enabledPlugins, "react-hooks")
               \cup spreadRules(enabledPlugins, "import"),
   settings |-> IF includes(enabledPlugins, "react") THEN <<reactVersion>> ELSE <<>>]

\* The baseConfig of #getAutoFixResults: the same for every setting.
fixBaseConfig ==
  [plugins |-> <<"react", "react-hooks", "import">>,
   extends |-> <<"eslint:recommended", "plugin:react/recommended", "plugin:import/recommended">>,
   rules |-> baselineRuleEntries \cup categoryRuleEntries("react")
               \cup categoryRuleEntries("react-hooks") \cup categoryRuleEntries("import")
               \cup {<<"import/no-deprecated", "warn">>, <<"import/cycle", "error">>},
   settings |-> <<>>]

\* Rules that a bundle named in `extends` turns on (some of each bundle).
BundleRuleEntries(bundle) ==
  CASE bundle = "eslint:recommended" -> {<<"no-empty", "error">>, <<"no-undef", "error">>}
    [] bundle = "plugin:react/recommended" ->
         {<<"react/jsx-key", "error">>, <<"react/react-in-jsx-scope", "error">>}
    [] bundle = "plugin:react-hooks/recommended" ->
         {<<"react-hooks/rules-of-hooks", "error">>, <<"react-hooks/exhaustive-deps", "warn">>}
    [] bundle = "plugin:import/recommended" ->
         {<<"import/no-unresolved", "error">>, <<"import/export", "error">>}
    [] OTHER -> {}

\* The rule identifiers an ESLint instance built from cfg reports: a rule of
\* cfg.rules that is not off, or a rule of a bundle that cfg.rules does not set.
RuleIds(cfg) ==
  {e[1] : e \in {x \in cfg.rules : x[2] # "off"}}
  \cup {e[1] : e \in {x \in UNION {BundleRuleEntries(b) : b \in SeqToSet(cfg.extends)} :
                        \A y \in cfg.rules : y[1] # x[1]}}

\* A setting of the workspace: not set, or set to a value.
NotSet == [set |-> FALSE]
SetTo(v) == [set |-> TRUE, value |-> v]

\* config.get(key, defaultValue)
get(settings, key, defaultValue) ==
  IF settings[key].set THEN settings[key].value ELSE defaultValue

PluginLists == UNION {[1..n -> PluginNames] : n \in 0..MaxPlugins}

\* package.json: minimum and maximum of freelint.debounceDelay.
DebounceDelayMinimum == 100
DebounceDelayMaximum == 2000

\* Values of freelint.debounceDelay in settings.json: below, at, between and
\* above the minimum and maximum that package.json declares.
DelaySettings ==
  {DebounceDelayMinimum \div 2, DebounceDelayMinimum, DefaultDebounceDelay,
   DebounceDelayMaximum, DebounceDelayMaximum + DefaultDebounceDelay}

WorkspaceSettings ==
  [plugins : {NotSet} \cup {SetTo(p) : p \in PluginLists},
   reactVersion : {NotSet} \cup {SetTo(v) : v \in ReactVersions},
   debounceDelay : {NotSet} \cup {SetTo(n) : n \in DelaySettings}]

\* The values #initializeESLint reads from the settings.
readConfiguration(settings) ==
  [plugins |-> get(settings, "plugins", DefaultPlugins),
   reactVersion |-> get(settings, "reactVersion", DefaultReactVersion),
   debounceDelay |-> get(settings, "debounceDelay", DefaultDebounceDelay),
   ignorePatterns |-> DefaultIgnorePatterns]

InitConfig ==
  /\ Idle
  /\ request \in {[kind |-> "settings", settings |-> s] : s \in WorkspaceSettings}
  /\ reply = NoReply

\* new Linter(): #initializeESLint builds baseConfig and the ESLint instance.
InitializeESLint ==
  /\ reply = NoReply
  /\ reply' = LET cfg == readConfiguration(request.settings)
              IN [kind |-> "linter", linter |-> createLinter(cfg),
                  baseConfig |-> baseConfig(cfg.plugins, cfg.reactVersion)]
  /\ UNCHANGED <<engine, request>>

\* A change event reaches the Linter: #debounceLint starts the timer.
DebounceLint ==
  /\ reply.kind = "linter"
  /\ reply' = [kind |-> "timer", baseConfig |-> reply.baseConfig,
               timer |-> debounceLint(reply.linter, "a").debounceTimer]
  /\ UNCHANGED <<engine, request>>

\* A code action request reaches the Linter: #getAutoFixResults builds its own
\* baseConfig.
GetAutoFixResults ==
  /\ reply.kind = "linter"
  /\ reply' = [kind |-> "fixPass", baseConfig |-> reply.baseConfig,
               fixBaseConfig |-> fixBaseConfig]
  /\ UNCHANGED <<engine, request>>

NextConfig == InitializeESLint \/ DebounceLint \/ GetAutoFixResults

SpecConfig == InitConfig /\ [][NextConfig]_vars

\* The settings of the request, as #initializeESLint reads them.
Requested == readConfiguration(request.settings)
Built == reply.kind = "linter"
KnownPlugins == {"react", "react-hooks", "import"}

\* C21: the baseConfig of the live pass holds the rules and the recommended
\* bundle of a plugin exactly when the plugin is in the enabled list, holds
\* every baseline rule always, and with an empty list holds the baseline rules
\* and eslint:recommended only, whatever the React version is.
C21_CategoryGating ==
  Built =>
    /\ baselineRuleEntries \subseteq reply.baseConfig.rules
    /\ \A c \in KnownPlugins :
         IF c \in SeqToSet(Requested.plugins)
         THEN /\ categoryRuleEntries(c) \subseteq reply.baseConfig.rules
              /\ ExtendOf(c) \in SeqToSet(reply.baseConfig.extends)
         ELSE /\ \A e \in reply.baseConfig.rules, x \in categoryRuleEntries(c) : e[1] # x[1]
              /\ ExtendOf(c) \notin SeqToSet(reply.baseConfig.extends)
    /\ Requested.plugins = <<>> =>
         /\ reply.baseConfig.rules = baselineRuleEntries
         /\ reply.baseConfig.extends = <<"eslint:recommended">>
         /\ reply.baseConfig.settings = <<>>

\* A configuration was built for a list with two of the three plugins and a
\* React version that is not the default.
C21_Witness ==
  /\ Built
  /\ request.settings.plugins = SetTo(<<"import", "react">>)
  /\ request.settings.reactVersion = SetTo("17.0.2")
  /\ <<"react/jsx-pascal-case", "error">> \in reply.baseConfig.rules

\* C22: a name in the enabled list that the extension does not know changes
\* nothing: the baseConfig equals the one built from the list without the
\* name, and the name is nowhere in it.
C22_UnknownIgnored ==
  Built =>
    /\ reply.baseConfig =
         baseConfig(SelectSeq(Requested.plugins, LAMBDA p : p \in KnownPlugins),
                    Requested.reactVersion)
    /\ SeqToSet(reply.baseConfig.plugins) \subseteq KnownPlugins

\* C23: the delay a timer is started with is the setting clamped to the
\* minimum and maximum of package.json, and the default when nothing is set.
C23_DelayClamp ==
  reply.kind = "timer" =>
    LET s == request.settings.debounceDelay
    IN /\ reply.timer.remaining \in DebounceDelayMinimum..DebounceDelayMaximum
       /\ ~s.set => reply.timer.remaining = DefaultDebounceDelay
       /\ s.set /\ s.value < DebounceDelayMinimum => reply.timer.remaining = DebounceDelayMinimum
       /\ s.set /\ s.value > DebounceDelayMaximum => reply.timer.remaining = DebounceDelayMaximum

\* C24: the fix pass and the live pass report the same rule identifiers,
\* whatever the enabled list is.
C24_SameRuleIds ==
  reply.kind = "fixPass" => RuleIds(reply.fixBaseConfig) = RuleIds(reply.baseConfig)

\* ------------------------------------------------- changing the settings
\* The behaviours in which the user edits freelint.plugins and
\* freelint.reactVersion in the settings while a.js is edited, saved and
\* linted, and linting is toggled.
SettingsTexts == {"clean", "two"}
PluginSettings == {DefaultPlugins, <<>>, NotAnArray}

InitSettings == Init /\ active = NoDoc /\ text["a"] \in SettingsTexts

\* workspace.onDidChangeConfiguration for freelint.plugins or
\* freelint.reactVersion: the config listener of every Linter runs.  It clears
\* the collection and calls #initializeESLint; when that throws, the error is
\* logged with the output channel shown and the listener ends there, otherwise
\* the active document is linted and the update is announced.
ChangeSettings(key, value) ==
  LET cfg == [config EXCEPT ![key] = value]
      ls == [i \in 1..Len(linters) |-> onDidChangeConfiguration(linters[i], cfg)]
      fl == IF Constructs(cfg) THEN lintActive(ls, Len(ls), inflight) ELSE inflight
  IN /\ value # config[key]
     /\ BagCardinality(fl) <= MaxInFlight
     /\ config' = cfg
     /\ linters' = ls
     /\ inflight' = fl
     /\ out' = IF Constructs(cfg)
               THEN {"config", "info"} \cup
                    (IF active = NoDoc THEN {} ELSE lintDocumentFx(ls, linter, active))
               ELSE {"config", "error", "show"}
     /\ UNCHANGED <<text, active, burst, request, reply>>

NextSettings ==
  \/ \E p \in PluginSettings : ChangeSettings("plugins", p)
  \/ \E v \in ReactVersions : ChangeSettings("reactVersion", v)
  \/ \E t \in SettingsTexts : Change("a", t)
  \/ Save("a")
  \/ \E d \in {"a", NoDoc} : ActiveChange(d)
  \/ Toggle
  \/ \E i \in 1..Len(linters) : TimerFire(i)
  \/ \E call \in BagToSet(inflight) : Complete(call)
  \/ Tick

SpecSettings == InitSettings /\ [][NextSettings]_vars

\* A step in which the settings that the config listener watches change.
ConfigurationChanged ==
  \/ \E p \in PluginSettings : ChangeSettings("plugins", p)
  \/ \E v \in ReactVersions : ChangeSettings("reactVersion", v)

\* C25: when building the ESLint instance fails on a settings change, the
\* failure is logged and shown, and as long as the settings stay as they are
\* no Linter starts an analysis and nothing is written to a collection.
C25_ConfigurationError ==
  [][/\ (ConfigurationChanged /\ ~Constructs(config')) => {"error", "show"} \subseteq out'
     /\ (~Constructs(config) /\ config' = config) =>
           /\ \A i \in Linters : NoNewCalls(i)
           /\ "write" \notin out']_vars

\* C26: a change of freelint.plugins or freelint.reactVersion that arrives
\* while the Linter is disabled leaves its ESLint instance and its collection
\* as they are and starts no analysis.
C26_ConfigChangeDisabledNoOp ==
  [][\A i \in Linters :
       (ConfigurationChanged /\ ~linters[i].enabled) =>
          /\ linters'[i].eslint = linters[i].eslint
          /\ Store(i) = linters'[i].diagnosticCollection
          /\ NoNewCalls(i)]_vars

\* ------------------------------------------- closing and deactivating
\* The behaviours in which a.js is edited, saved and closed, the Linter is
\* replaced by freelint.setReactVersion, and the extension is deactivated.

\* The listeners and commands of activate() are registered until deactivate().
Activated == ~linters[linter].disposed

\* workspace.onDidCloseTextDocument: the document is closed; it is no longer
\* the document of the active editor.  No listener is registered for it.
Close(d) ==
  /\ Activated
  /\ active' = IF active = d THEN NoDoc ELSE active
  /\ out' = {"close"}
  /\ UNCHANGED <<linters, config, text, inflight, burst, request, reply>>

\* deactivate(): linter.dispose(), and the subscriptions of the context are
\* disposed.
Deactivate ==
  /\ Activated
  /\ linters' = [linters EXCEPT ![linter] = dispose(linters[linter])]
  /\ out' = {"dispose"}
  /\ UNCHANGED <<config, text, active, inflight, burst, request, reply>>

InitLifecycle == Init /\ active = "a" /\ text["a"] \in ReloadTexts

NextLifecycle ==
  \/ \E t \in ReloadTexts : Change("a", t)
  \/ Activated /\ Save("a")
  \/ Activated /\ \E d \in {"a", NoDoc} : ActiveChange(d)
  \/ Activated /\ \E v \in ReactVersions : SetReactVersion(v)
  \/ Close("a")
  \/ Deactivate
  \/ \E i \in 1..Len(linters) : TimerFire(i)
  \/ \E call \in BagToSet(inflight) : Complete(call)
  \/ Tick

SpecLifecycle == InitLifecycle /\ [][NextLifecycle]_vars

\* C27: closing a document clears its diagnostics: after the step the
\* collection of every Linter holds nothing for it.
C27_CloseClears ==
  [][\A d \in Docs : Close(d) => \A i \in Linters : linters'[i].diagnosticCollection[d] = <<>>]_vars

\* C28: a disposed Linter has no pending timer and an empty collection, and
\* starts no analysis: neither the timer it had when it was disposed nor
\* anything else adds a call of it.
C28_DisposeCancelsAndClears ==
  /\ [](\A i \in Linters :
          linters[i].disposed => ~Pending(linters[i]) /\ Store(i) = EmptyCollection)
  /\ [][\A i \in Linters : linters[i].disposed => NoNewCalls(i)]_vars

\* A Linter was disposed within the delay of a run of changes whose timer had
\* not fired, after the time at which that timer would have fired, while a
\* call of it is still awaited.
C28_Witness ==
  \E i \in Linters :
    /\ linters[i].disposed
    /\ burst[i].doc = "a" /\ burst[i].starts = 0 /\ burst[i].age >= burst[i].delay
    /\ \E c \in BagToSet(inflight) : c.linter = i

\* ------------------------------------------------ overlapping analyses
\* The behaviours in which a.js is open and active, the Linter stays enabled,
\* and a.js is edited and saved while analyses of it are awaited.
NextRace ==
  \/ \E t \in ReloadTexts : Change("a", t)
  \/ Save("a")
  \/ \E i \in 1..Len(linters) : TimerFire(i)
  \/ \E call \in BagToSet(inflight) : Complete(call)
  \/ Tick

SpecRace == InitReload /\ [][NextRace]_vars

\* Linter i awaits no analysis of d and has no timer pending for d.
Quiescent(i, d) ==
  /\ \A c \in BagToSet(inflight) : ~(c.linter = i /\ c.doc = d)
  /\ ~(Pending(linters[i]) /\ linters[i].debounceTimer.doc = d)

\* C30: once no analysis of a document is awaited and no timer is pending for
\* it, the collection holds the diagnostics of the document's latest text, in
\* whatever order the analyses completed.
C30_FreshestWins ==
  \A i \in Linters :
    Quiescent(i, "a") => Store(i)["a"] = Normalize(lintText(text["a"], linters[i].eslint))

\* ------------------------------------------------ disabled and published
\* C31: while a Linter is disabled its collection is empty for every
\* document, also when an analysis that was started while it was enabled
\* completes after the toggle.
C31_NothingPublishedWhileDisabled ==
  \A i \in Linters : ~linters[i].enabled => Store(i) = EmptyCollection

\* -------------------------------------------------- edits of two documents
\* The behaviours in which a.js is edited once, from a text without findings
\* to one with a console statement, b.tsx is edited twice, and nothing but
\* the debounce timer starts an analysis: no editor is active, the Linter
\* stays enabled.
InitEdits == Init /\ active = NoDoc /\ text["a"] = "clean"

EditOnce == text["a"] = "clean" /\ Change("a", "console")

EditOther ==
  \/ text["b"] = "console" /\ Change("b", "clean")
  \/ text["b"] = "clean" /\ Change("b", "two")

NextEdits ==
  \/ EditOnce
  \/ EditOther
  \/ \E i \in 1..Len(linters) : TimerFire(i)
  \/ \E call \in BagToSet(inflight) : Complete(call)
  \/ Tick

SpecEdits == InitEdits /\ [][NextEdits]_vars

\* Timers run: time passes while a timer is pending, an expired timer calls
\* its callback, and an awaited lintText call settles.
FairEdits ==
  /\ SpecEdits
  /\ WF_vars(Tick)
  /\ WF_vars(\E i \in 1..Len(linters) : TimerFire(i))
  /\ WF_vars(\E call \in BagToSet(inflight) : Complete(call))

\* An analysis of the edited text of a.js is awaited or has published.
Analyzed(d) ==
  \/ \E c \in BagToSet(inflight) : c.doc = d /\ c.text = text[d]
  \/ \E i \in Linters : Store(i)[d] # <<>>

\* C32: once a.js has been edited, with the Linter enabled and a.js not edited
\* again, an analysis of it is eventually started by the timer, whatever
\* changes of b.tsx occur in the meantime.
C32_EveryEditAnalyzed == (text["a"] = "console") ~> Analyzed("a")

\* ------------------------------------------ results across a settings change
\* The diagnostics an analysis can produce: one text analyzed by one ESLint
\* instance.
PossibleResults ==
  {Normalize(lintText(t, [plugins |-> p, reactVersion |-> v])) :
     t \in Texts, p \in PluginSettings \ {NotAnArray}, v \in ReactVersions}

\* C33: once the config listener has cleared the collection and replaced the
\* ESLint instance, the result of a call made with the replaced instance is
\* not written into the collection, also when the call was awaited at the
\* time of the change.
C33_NoStaleConfigurationResults ==
  [][\A call \in BagToSet(inflight) :
       (Complete(call) /\ call.eslint # linters[call.linter].eslint) =>
          linters'[call.linter].diagnosticCollection = Store(call.linter)]_vars

\* C34: the diagnostics stored for a document are none, or the whole result
\* of one analysis: never diagnostics of two analyses together.
C34_WholeSetReplacement ==
  \A i \in Linters : \A d \in Docs : Store(i)[d] = <<>> \/ Store(i)[d] \in PossibleResults

\* The collection holds the result of the analysis by an ESLint instance
\* without plugins, written by the last step, while a call of the instance
\* with the default plugins is awaited for the same document.
C34_Witness ==
  /\ "write" \in out
  /\ Store(1)["a"] = Normalize(lintText("two", [plugins |-> <<>>, reactVersion |-> DefaultReactVersion]))
  /\ \E c \in BagToSet(inflight) : c.doc = "a" /\ c.eslint.plugins = DefaultPlugins

\* ------------------------------------------------------- one-shot timers
\* C35: a timer is no longer pending after the step in which it fired or in
\* which toggle() cancelled it, and the timer of one run of changes starts at
\* most one analysis.
C35_TimerFiresOnce ==
  /\ [](\A i \in Linters : burst[i].starts <= 1)
  /\ [][\A i \in Linters :
          (TimerFire(i) \/ (Toggle /\ i = linter /\ linters[i].enabled))
             => ~Pending(linters'[i])]_vars

\* The timer of a run of changes has just fired and started its analysis.
C35_Witness ==
  \E i \in Linters :
    /\ "timer" \in out /\ "run" \in out
    /\ linters[i].debounceTimer = StaleTimer
    /\ burst[i].starts = 1

\* ----------------------------------------------- changing the delay alone
\* The behaviours in which the user edits freelint.debounceDelay, and
\* freelint.reactVersion, in the settings while a.js is edited.
DelayChoices == {TickMs, DefaultDebounceDelay, DefaultDebounceDelay + TickMs}

\* workspace.onDidChangeConfiguration for freelint.debounceDelay: the config
\* listener of every Linter runs and finds none of the settings it watches
\* affected.
ChangeDebounceDelay(n) ==
  /\ n # config.debounceDelay
  /\ config' = [config EXCEPT !.debounceDelay = n]
  /\ out' = {"config"}
  /\ UNCHANGED <<linters, text, active, inflight, burst, request, reply>>

NextDelay ==
  \/ \E n \in DelayChoices : ChangeDebounceDelay(n)
  \/ \E v \in ReactVersions : ChangeSettings("reactVersion", v)
  \/ \E t \in ReloadTexts : Change("a", t)
  \/ \E i \in 1..Len(linters) : TimerFire(i)
  \/ \E call \in BagToSet(inflight) : Complete(call)
  \/ Tick

SpecDelay == InitReload /\ [][NextDelay]_vars

\* C36: a timer that a change event starts runs for the delay that
\* freelint.debounceDelay holds at that time, also when that setting alone
\* was changed since the Linter was built.
C36_DelayTakesEffect ==
  [][\A i \in Linters :
       ((\E t \in ReloadTexts : Change("a", t)) /\ linters[i].enabled) =>
          linters'[i].debounceTimer.remaining = config.debounceDelay]_vars

\* ------------------------------------------- the frame of a settings change
\* The step of a change of freelint.plugins or freelint.reactVersion while the
\* Linter is enabled: the collection is empty for every document afterwards
\* and the only analysis started is one of the active document.
ConfigChangeStepFrame ==
  [][\A i \in Linters :
       (ConfigurationChanged /\ linters[i].enabled) =>
          /\ linters'[i].diagnosticCollection = EmptyCollection
          /\ \A c \in BagToSet(inflight') :
               (c.linter = i /\ CopiesIn(c, inflight') > CopiesIn(c, inflight))
                  => c.doc = active]_vars

\* C37: a change of freelint.plugins or freelint.reactVersion while the Linter
\* is enabled empties the collection for every document and starts an
\* analysis of the active document only; a document that is not the active
\* one keeps its empty set in the step that follows the change unless that
\* step is a trigger of its own.
C37_ConfigChangeFrame ==
  /\ ConfigChangeStepFrame
  /\ [][\A call \in BagToSet(inflight) :
          ("config" \in out /\ Constructs(config) /\ linters[call.linter].enabled
             /\ call.doc # active /\ Complete(call))
          => linters'[call.linter].diagnosticCollection[call.doc] = <<>>]_vars

\* ------------------------------------------------ enabled and disabled
\* C38: the freelint.setReactVersion command leaves the extension's Linter
\* enabled when it was enabled and disabled when it was disabled, and in the
\* latter case starts no analysis.
C38_SetVersionKeepsState ==
  [][\A v \in ReactVersions :
       SetReactVersion(v) =>
          /\ linters'[Len(linters')].enabled = linters[linter].enabled
          /\ ~linters[linter].enabled => inflight' = inflight]_vars

\* C39: a Linter is built enabled; toggle() changes #enabled to the other
\* value, which is what it returns, so toggle() twice gives the value back;
\* the freelint.toggle command does this to the extension's Linter.
C39_ToggleFlips ==
  /\ [](/\ createLinter(config).enabled
        /\ \A i \in Linters :
             /\ toggle(linters[i]).enabled = ~linters[i].enabled
             /\ toggle(toggle(linters[i])).enabled = linters[i].enabled)
  /\ [][Toggle => linters'[linter].enabled = ~linters[linter].enabled]_vars

\* The freelint.toggle command has just enabled a Linter again: it was built
\* enabled, so this is at least its second toggle.
C39_Witness ==
  /\ "toggle" \in out
  /\ linters[linter].enabled
  /\ Len(linters) = 1

====
